---- MODULE Spec2Model ----
(***************************************************************************)
(* Model of src/server.py: a Flask server doing Sign-In With Ethereum      *)
(* authentication gated by a cached reputation score.                      *)
(*                                                                         *)
(*   nonces            the module-level dict token -> issue time, kept as  *)
(*                     a sequence of entries because a Python dict keeps   *)
(*                     insertion order and sorted() is stable              *)
(*   reputation_cache  the module-level dict address -> record             *)
(*   one thread per running handler (get_nonce, golden_emoji), one for    *)
(*   cleanup_nonces and one for fetch_reputation_agents                    *)
(*                                                                         *)
(* Five specifications share the actions: SpecNonce (the nonce store),    *)
(* SpecGold (one request through every step, every configuration),        *)
(* SpecRep (the refresher and one reader), SpecLookup (two readers) and    *)
(* SpecLive (janitor, refresher and one handler under fair scheduling).    *)
(*                                                                         *)
(* MAX_NONCES is 10000 in the source; the model keeps the code's           *)
(* arithmetic (capacity, int(MAX_NONCES * 0.1)) and runs it with a         *)
(* capacity of 10, the smallest one whose 10% is not zero.                 *)
(***************************************************************************)
EXTENDS Integers, Sequences, FiniteSets, TLC

\* ------------------------------------------------------------ bounds ----
MAX_NONCES == 10        \* the capacity of the model; 10000 in src/server.py:26
TTL == 300              \* seconds, src/server.py:47,167,184
BYPASS == 999998        \* src/server.py:138
SLEEP == 60             \* time.sleep(60), src/server.py:44,118
ClockStep == 150        \* seconds the clock advances in one Tick
MaxTime == 450          \* the clock stops here
InitFill == MAX_NONCES - 1  \* tokens outstanding in a pre-filled store
MaxIssue == 2           \* calls of get_nonce made in one run

Issuers == {"g1"}
Posters == {"p1", "p2"}
NoToken == 0            \* no token: tokens are 1, 2, ...
BogusToken == 99        \* a token that get_nonce never returned

\* ------------------------------------------------------------- state ----
VARIABLES
  now,                \* datetime.now(timezone.utc), in seconds
  nonces,             \* the dict nonces, in insertion order: <<[n, t], ...>>
  nonces_lock,        \* "free" or the thread inside `with nonces_lock`
  reputation_cache,   \* the dict reputation_cache: address -> record
  reputation_cache_lock,
  env,                \* os.getenv and agent0_sdk: the configuration
  g,                  \* get_nonce handlers: [pc, nonce, current_time]
  jan,                \* cleanup_nonces: [pc, current_time, errors, ...]
  p,                  \* golden_emoji handlers: [pc, req, resp, ...]
  ref,                \* fetch_reputation_agents: [pc, feed, all_agents, ...]
  hist                \* history: what was issued, matched, swept, read

vars == <<now, nonces, nonces_lock, reputation_cache, reputation_cache_lock,
          env, g, jan, p, ref, hist>>

\* ---------------------------------------------------- the nonce dict ----
None == [tag |-> "None"]                  \* Python's None

Entry(n, t) == [n |-> n, t |-> t]

\* nonces.keys()
Tokens(s) == {s[i].n : i \in DOMAIN s}

\* `n in nonces`
InStore(s, n) == \E i \in DOMAIN s : s[i].n = n

IsExpired_AtTTL(ct, t) == ct - t >= TTL

\* (current_time - t).total_seconds() > 300
IsExpired(ct, t) == ct - t > TTL

\* expired = [n for n, t in nonces.items() if ...]; for n in expired: del
RemoveExpired(s, ct) == SelectSeq(s, LAMBDA e : ~IsExpired(ct, e.t))

\* nonces[n]
IssueTime(s, n) == s[CHOOSE i \in DOMAIN s : s[i].n = n].t

DelToken_Kept(s, n) == s

\* del nonces[n]
DelToken(s, n) == SelectSeq(s, LAMBDA e : e.n # n)

\* nonces[nonce] = current_time: a new key goes to the end of the dict, an
\* existing key keeps its place and takes the new value
SetItem(s, n, t) ==
  IF InStore(s, n)
    THEN [i \in DOMAIN s |-> IF s[i].n = n THEN Entry(n, t) ELSE s[i]]
    ELSE Append(s, Entry(n, t))

RECURSIVE InsertSorted(_, _)
InsertSorted(srt, e) ==
  IF srt = <<>> THEN <<e>>
  ELSE IF Head(srt).t <= e.t
         THEN <<Head(srt)>> \o InsertSorted(Tail(srt), e)
         ELSE <<e>> \o srt

\* sorted(nonces.items(), key=lambda x: x[1]): stable, ties keep dict order
RECURSIVE SortedByTime(_)
SortedByTime(s) ==
  IF s = <<>> THEN <<>>
  ELSE InsertSorted(SortedByTime(SubSeq(s, 1, Len(s) - 1)), s[Len(s)])

\* to_remove = int(MAX_NONCES * 0.1)
ToRemove == MAX_NONCES \div 10

OldestTokens_Newest(s) ==
  LET srt == SortedByTime(s)
      k   == IF ToRemove < Len(srt) THEN ToRemove ELSE Len(srt)
  IN  {srt[i].n : i \in (Len(srt) - k + 1)..Len(srt)}

\* the keys of sorted_nonces[:to_remove]
OldestTokens(s) ==
  LET srt == SortedByTime(s)
      k   == IF ToRemove < Len(srt) THEN ToRemove ELSE Len(srt)
  IN  {srt[i].n : i \in 1..k}

EvictOldest(s) == SelectSeq(s, LAMBDA e : e.n \notin OldestTokens(s))

MakeRoom_ExpiredOnly(s, ct) ==
  IF Len(s) >= MAX_NONCES THEN RemoveExpired(s, ct) ELSE s

\* the block under `if len(nonces) >= MAX_NONCES:` of get_nonce
MakeRoom(s, ct) ==
  IF Len(s) >= MAX_NONCES
    THEN LET s1 == RemoveExpired(s, ct)
         IN  IF Len(s1) >= MAX_NONCES THEN EvictOldest(s1) ELSE s1
    ELSE s

\* len(expired)
CountExpired(s, ct) == Len(s) - Len(RemoveExpired(s, ct))

LockFree(l) == l = "free"

Released_Held(holder) == holder

\* the end of a `with` block: the lock the thread holds is free again
Released(holder) == "free"

\* ------------------------------------------------------------- clock ----
\* the last value of the clock
LastTick == (MaxTime \div ClockStep) * ClockStep

\* time.sleep(60) started at t returns at t + 60
WakeAt(t) == t + SLEEP

Tick ==
  /\ now + ClockStep <= MaxTime
  /\ now' = now + ClockStep
  /\ UNCHANGED <<nonces, nonces_lock, reputation_cache,
                 reputation_cache_lock, env, g, jan, p, ref, hist>>

\* Time passes after the clock of the model stopped: LastTick stands for
\* every later time as well, and a sleep that ends later ends at LastTick.
Tick_Beyond ==
  /\ now = LastTick
  /\ jan.wake_at > LastTick \/ ref.wake_at > LastTick
  /\ jan' = [jan EXCEPT !.wake_at = IF @ > LastTick THEN LastTick ELSE @]
  /\ ref' = [ref EXCEPT !.wake_at = IF @ > LastTick THEN LastTick ELSE @]
  /\ UNCHANGED <<now, nonces, nonces_lock, reputation_cache,
                 reputation_cache_lock, env, g, p, hist>>

\* ---------------------------------------------------- cleanup_nonces ----
\* time.sleep(60) returns; current_time = datetime.now(timezone.utc)
Janitor_Wake ==
  /\ jan.pc = "sleep"
  /\ now >= jan.wake_at
  /\ jan' = [jan EXCEPT !.pc = "woke", !.current_time = now]
  /\ UNCHANGED <<now, nonces, nonces_lock, reputation_cache,
                 reputation_cache_lock, env, g, p, ref, hist>>

\* with nonces_lock:
Janitor_Lock ==
  /\ jan.pc = "woke"
  /\ LockFree(nonces_lock)
  /\ nonces_lock' = "jan"
  /\ jan' = [jan EXCEPT !.pc = "locked"]
  /\ UNCHANGED <<now, nonces, reputation_cache, reputation_cache_lock,
                 env, g, p, ref, hist>>

\* the body of the with block, the release, and back to time.sleep(60)
Janitor_Sweep ==
  /\ jan.pc = "locked"
  /\ nonces' = RemoveExpired(nonces, jan.current_time)
  /\ nonces_lock' = Released("jan")
  /\ jan' = [jan EXCEPT !.pc = "sleep", !.current_time = 0,
                        !.expired = CountExpired(nonces, jan.current_time),
                        !.wake_at = WakeAt(now)]
  /\ UNCHANGED <<now, reputation_cache, reputation_cache_lock,
                 env, g, p, ref, hist>>

MaxErrors == 1          \* iterations of the janitor that raise in one run

Janitor_Raise_Dies ==
  /\ jan.pc \in {"woke", "locked"}
  /\ jan.errors < MaxErrors
  /\ nonces_lock' = IF jan.pc = "locked" THEN Released("jan")
                                          ELSE nonces_lock
  /\ jan' = [jan EXCEPT !.pc = "dead", !.errors = @ + 1]
  /\ UNCHANGED <<now, nonces, reputation_cache, reputation_cache_lock,
                 env, g, p, ref, hist>>

\* a statement inside the try raises: the with block, when entered, is
\* left; except Exception as e: print(...); back to time.sleep(60)
Janitor_Raise ==
  /\ jan.pc \in {"woke", "locked"}
  /\ jan.errors < MaxErrors
  /\ nonces_lock' = IF jan.pc = "locked" THEN Released("jan")
                                          ELSE nonces_lock
  /\ jan' = [jan EXCEPT !.pc = "sleep", !.current_time = 0,
                        !.errors = @ + 1, !.wake_at = WakeAt(now)]
  /\ UNCHANGED <<now, nonces, reputation_cache, reputation_cache_lock,
                 env, g, p, ref, hist>>

\* --------------------------------------------------------- get_nonce ----
\* nonce = secrets.token_hex(16); current_time = datetime.now(timezone.utc)
\* A token of 128 random bits is a token nobody generated before.
GetNonce_Start(i) ==
  /\ g[i].pc = "idle"
  /\ hist.calls < MaxIssue
  /\ g' = [g EXCEPT ![i] = [pc |-> "gen", nonce |-> hist.generated + 1,
                            current_time |-> now]]
  /\ hist' = [hist EXCEPT !.generated = @ + 1, !.calls = @ + 1]
  /\ UNCHANGED <<now, nonces, nonces_lock, reputation_cache,
                 reputation_cache_lock, env, jan, p, ref>>

\* with nonces_lock:
GetNonce_Lock(i) ==
  /\ g[i].pc = "gen"
  /\ LockFree(nonces_lock)
  /\ nonces_lock' = i
  /\ g' = [g EXCEPT ![i].pc = "room"]
  /\ UNCHANGED <<now, nonces, reputation_cache, reputation_cache_lock,
                 env, jan, p, ref, hist>>

\* if len(nonces) >= MAX_NONCES: ...
GetNonce_MakeRoom(i) ==
  /\ g[i].pc = "room"
  /\ nonces' = MakeRoom(nonces, g[i].current_time)
  /\ g' = [g EXCEPT ![i].pc = "insert"]
  /\ hist' = [hist EXCEPT !.evicted = @ \cup
                 (Tokens(RemoveExpired(nonces, g[i].current_time))
                    \ Tokens(nonces'))]
  /\ UNCHANGED <<now, nonces_lock, reputation_cache, reputation_cache_lock,
                 env, jan, p, ref>>

\* nonces[nonce] = current_time
GetNonce_Insert(i) ==
  /\ g[i].pc = "insert"
  /\ nonces' = SetItem(nonces, g[i].nonce, g[i].current_time)
  /\ g' = [g EXCEPT ![i].pc = "sweep"]
  /\ UNCHANGED <<now, nonces_lock, reputation_cache, reputation_cache_lock,
                 env, jan, p, ref, hist>>

\* the opportunistic cleanup, the release, and return jsonify({"nonce": nonce})
GetNonce_Sweep(i) ==
  /\ g[i].pc = "sweep"
  /\ nonces' = RemoveExpired(nonces, g[i].current_time)
  /\ nonces_lock' = Released(i)
  /\ g' = [g EXCEPT ![i] = [pc |-> "idle", nonce |-> NoToken,
                            current_time |-> 0]]
  /\ hist' = [hist EXCEPT !.returned = @ \cup {g[i].nonce}]
  /\ UNCHANGED <<now, reputation_cache, reputation_cache_lock,
                 env, jan, p, ref>>

\* ------------------------------------------------------ golden_emoji ----
EXPECTED_CHAIN_ID == 999                      \* int(os.getenv("CHAIN_ID", "999"))
EXPECTED_STATEMENT == "I want the gold"
\* f"http://{expected_domain}"
ExpectedUri(domain) == <<"http://", domain>>
Unset == ""                                   \* os.getenv(...) is None

NoAddress == <<>>
NoReq == [method |-> "", data |-> "", message |-> "", signature |-> "",
          nonce |-> NoToken, domain |-> "", chain_id |-> 0, statement |-> "",
          uri |-> <<>>, address |-> NoAddress]

Response(status, error, address, agent) ==
  [status |-> status, error |-> error, address |-> address, agent |-> agent]
NoResp == Response(0, "", NoAddress, None)

IdlePoster == [pc |-> "idle", req |-> NoReq, resp |-> NoResp,
               matched |-> FALSE, replay |-> FALSE, looked |-> FALSE,
               agent_info |-> None, before |-> None, after |-> None,
               seen |-> None]

EarlyResponse_SignatureLater(e, r) ==
  IF e.expected_domain = Unset
    THEN Response(500, "Server misconfiguration: EXPECTED_DOMAIN not set",
                  NoAddress, None)
  ELSE IF r.method = "GET"
    THEN Response(200, "", NoAddress, None)
  ELSE IF r.data = "raises"
    THEN Response(401, "Verification failed", NoAddress, None)
  ELSE IF r.data # "ok"
    THEN Response(400, "Invalid or missing JSON payload", NoAddress, None)
  ELSE IF r.message = "missing"
    THEN Response(400, "Missing message or signature", NoAddress, None)
  ELSE IF r.message = "malformed"
    THEN Response(401, "Verification failed", NoAddress, None)
  ELSE None

\* the response of lines 217-246, or None when the request reaches the
\* nonce step
EarlyResponse(e, r) ==
  IF e.expected_domain = Unset
    THEN Response(500, "Server misconfiguration: EXPECTED_DOMAIN not set",
                  NoAddress, None)
  ELSE IF r.method = "GET"
    THEN Response(200, "", NoAddress, None)
  ELSE IF r.data = "raises"                  \* request.get_json() raises
    THEN Response(401, "Verification failed", NoAddress, None)
  ELSE IF r.data # "ok"                      \* `not data`: None, {}, [], ...
    THEN Response(400, "Invalid or missing JSON payload", NoAddress, None)
  ELSE IF r.message = "missing" \/ r.signature = "missing"
    THEN Response(400, "Missing message or signature", NoAddress, None)
  ELSE IF r.message = "malformed"            \* SiweMessage.from_message raises
    THEN Response(401, "Verification failed", NoAddress, None)
  ELSE None

FieldResponse_ChainFirst(e, r) ==
  IF r.chain_id # EXPECTED_CHAIN_ID
    THEN Response(401, "Chain ID mismatch", NoAddress, None)
  ELSE IF r.domain # e.expected_domain
    THEN Response(401, "Domain mismatch", NoAddress, None)
  ELSE IF r.statement # EXPECTED_STATEMENT
    THEN Response(401, "Statement mismatch", NoAddress, None)
  ELSE IF r.uri # ExpectedUri(e.expected_domain)
    THEN Response(401, "URI mismatch", NoAddress, None)
  ELSE None

\* the response of lines 253-277, or None when every field matches
FieldResponse(e, r) ==
  IF r.domain # e.expected_domain
    THEN Response(401, "Domain mismatch", NoAddress, None)
  ELSE IF r.chain_id # EXPECTED_CHAIN_ID
    THEN Response(401, "Chain ID mismatch", NoAddress, None)
  ELSE IF r.statement # EXPECTED_STATEMENT
    THEN Response(401, "Statement mismatch", NoAddress, None)
  ELSE IF r.uri # ExpectedUri(e.expected_domain)
    THEN Response(401, "URI mismatch", NoAddress, None)
  ELSE None

\* str.lower()
LowerChar(c) == CASE c = "A" -> "a" [] c = "B" -> "b" [] c = "C" -> "c"
                  [] OTHER -> c

Lower_Identity(a) == a

Lower(a) == [i \in DOMAIN a |-> LowerChar(a[i])]

\* reputation_cache.get(address_lower)
CacheGet(c, a) == IF a \in DOMAIN c THEN c[a] ELSE None

BypassRecord == [test_mode |-> TRUE, note |-> "Reputation check disabled"]
TestModeRecord == [test_mode |-> TRUE, note |-> "Test mode enabled"]

ReputationWithoutCache_SdkFirst(e) ==
  IF ~e.sdk
    THEN IF e.test_mode THEN [has |-> TRUE, info |-> TestModeRecord]
                        ELSE [has |-> FALSE, info |-> None]
  ELSE IF e.min_score > BYPASS THEN [has |-> TRUE, info |-> BypassRecord]
  ELSE None

\* check_reputation, lines 137-145: <<has_reputation, agent_info>> when it
\* returns before the cache is read, None otherwise
ReputationWithoutCache(e) ==
  IF e.min_score > BYPASS THEN [has |-> TRUE, info |-> BypassRecord]
  ELSE IF ~e.sdk
    THEN IF e.test_mode THEN [has |-> TRUE, info |-> TestModeRecord]
                        ELSE [has |-> FALSE, info |-> None]
  ELSE None

FinalResponse_Always(address, has_reputation, agent_info) ==
  Response(200, "", address, agent_info)

\* lines 285-299: the response after check_reputation returned
FinalResponse(address, has_reputation, agent_info) ==
  IF ~has_reputation
    THEN Response(403, "Access denied", address, None)
    ELSE Response(200, "", address, agent_info)

\* a record without its fetch time
Strip(rec) ==
  IF rec = None THEN None
  ELSE IF "fetched_at" \in DOMAIN rec
    THEN [agentId |-> rec.agentId, name |-> rec.name, score |-> rec.score]
  ELSE rec

\* the request arrives; lines 217-246
Post_Start(t, r) ==
  /\ p[t].pc = "idle"
  /\ r.nonce \in hist.returned \cup {BogusToken}
  /\ LET early == EarlyResponse(env, r)
     IN  p' = [p EXCEPT ![t] =
                 IF early # None
                   THEN [IdlePoster EXCEPT !.pc = "done", !.req = r,
                                            !.resp = early]
                   ELSE [IdlePoster EXCEPT !.pc = "parsed", !.req = r]]
  /\ UNCHANGED <<now, nonces, nonces_lock, reputation_cache,
                 reputation_cache_lock, env, g, jan, ref, hist>>

\* with nonces_lock:
Post_Lock(t) ==
  /\ p[t].pc = "parsed"
  /\ LockFree(nonces_lock)
  /\ nonces_lock' = t
  /\ p' = [p EXCEPT ![t].pc = "locked"]
  /\ UNCHANGED <<now, nonces, reputation_cache, reputation_cache_lock,
                 env, g, jan, ref, hist>>

NonceError == Response(401, "Invalid or expired nonce", NoAddress, None)

NonceThenFields_FieldsFirst(present, bad) ==
  IF bad # None THEN bad ELSE IF ~present THEN NonceError ELSE None

\* the order of lines 248-277: the nonce test comes first, then the fields;
\* None when the request goes on to signature verification
NonceThenFields(present, bad) ==
  IF ~present THEN NonceError ELSE bad

\* if siwe_message.nonce not in nonces: return 401; del nonces[...]; the
\* release; the four comparisons of lines 253-277
Post_Nonce(t) ==
  /\ p[t].pc = "locked"
  /\ nonces_lock' = Released(t)
  /\ LET n       == p[t].req.nonce
         present == InStore(nonces, n)
         out     == NonceThenFields(present, FieldResponse(env, p[t].req))
     IN
     /\ p' = [p EXCEPT ![t].pc = IF out # None THEN "done" ELSE "verify",
                       ![t].resp = IF out # None THEN out ELSE @,
                       ![t].matched = present,
                       ![t].replay = n \in hist.matched]
     /\ IF present
          THEN /\ nonces' = DelToken(nonces, n)
               /\ hist' = [hist EXCEPT
                             !.matched = @ \cup {n},
                             !.twice = @ \cup (hist.matched \cap {n}),
                             !.late = @ \cup
                                (IF IsExpired(now, IssueTime(nonces, n))
                                   THEN {n} ELSE {})]
          ELSE UNCHANGED <<nonces, hist>>
  /\ UNCHANGED <<now, reputation_cache, reputation_cache_lock,
                 env, g, jan, ref>>

\* siwe_message.verify(...) returns or raises; check_reputation up to the
\* cache lock, lines 279-147
Post_Verify(t) ==
  /\ p[t].pc = "verify"
  /\ LET r   == p[t].req
         rep == ReputationWithoutCache(env)
     IN  p' = [p EXCEPT ![t] =
           IF r.signature # "valid"
             THEN [@ EXCEPT !.pc = "done",
                            !.resp = Response(401, "Verification failed",
                                              NoAddress, None)]
           ELSE IF rep # None
             THEN [@ EXCEPT !.pc = "done", !.agent_info = rep.info,
                            !.resp = FinalResponse(r.address, rep.has,
                                                   rep.info)]
           ELSE [@ EXCEPT !.pc = "lookup"]]
  /\ UNCHANGED <<now, nonces, nonces_lock, reputation_cache,
                 reputation_cache_lock, env, g, jan, ref, hist>>

\* with reputation_cache_lock:
Post_RepLock(t) ==
  /\ p[t].pc = "lookup"
  /\ LockFree(reputation_cache_lock)
  /\ reputation_cache_lock' = t
  /\ p' = [p EXCEPT ![t].pc = "replocked"]
  /\ UNCHANGED <<now, nonces, nonces_lock, reputation_cache,
                 env, g, jan, ref, hist>>

\* agent_info = reputation_cache.get(address_lower); the release; the
\* response, lines 149-299
Post_RepRead(t) ==
  /\ p[t].pc = "replocked"
  /\ reputation_cache_lock' = Released(t)
  /\ LET a    == Lower(p[t].req.address)
         info == CacheGet(reputation_cache, a)
     IN  p' = [p EXCEPT ![t].pc = "done", ![t].looked = TRUE,
                       ![t].agent_info = info,
                       ![t].seen = reputation_cache,
                       ![t].before = Strip(CacheGet(hist.pre, a)),
                       ![t].after = CacheGet(hist.full, a),
                       ![t].resp = FinalResponse(p[t].req.address,
                                                 info # None, info)]
  /\ UNCHANGED <<now, nonces, nonces_lock, reputation_cache,
                 env, g, jan, ref, hist>>

\* the response is sent; the handler thread takes the next request
Post_Return(t) ==
  /\ p[t].pc = "done"
  /\ p' = [p EXCEPT ![t] = IdlePoster]
  /\ UNCHANGED <<now, nonces, nonces_lock, reputation_cache,
                 reputation_cache_lock, env, g, jan, ref, hist>>

\* ------------------------------------------- fetch_reputation_agents ----
MaxPages == 2           \* pages one query of the reputation source returns
MaxCycles == 2          \* iterations of the refresher loop in one run

EmptyCache == [a \in {} |-> None]

\* reputation_cache[wallet_address] = {...}
CachePut(c, a, rec) ==
  [x \in DOMAIN c \cup {a} |-> IF x = a THEN rec ELSE c[x]]

\* extras.get("averageScore", 0) if isinstance(extras, dict) else 0
Score(agent) == IF agent.extras_is_dict THEN agent.averageScore ELSE 0

CacheRecord(agent, t) ==
  [agentId |-> agent.agentId, name |-> agent.name, score |-> Score(agent),
   fetched_at |-> t]

\* the mapping the loop of lines 97-109 builds from all_agents when no
\* record raises, without the fetch times
RECURSIVE BuildStripped(_)
BuildStripped(agents) ==
  IF agents = <<>> THEN EmptyCache
  ELSE LET rest == BuildStripped(SubSeq(agents, 1, Len(agents) - 1))
           a    == agents[Len(agents)]
       IN  IF a.wallet = "str"
             THEN CachePut(rest, Lower(a.walletAddress),
                           Strip(CacheRecord(a, 0)))
             ELSE rest

\* the top of the loop: the first iteration, or time.sleep(60) returned
Refresh_Begin ==
  /\ ref.pc = "sleep"
  /\ now >= ref.wake_at
  /\ ref.cycles < MaxCycles
  /\ IF env.sdk
       THEN /\ ref' = [ref EXCEPT !.pc = "fetch", !.all_agents = <<>>,
                                  !.page = 1, !.cycles = @ + 1]
            /\ hist' = [hist EXCEPT !.pre = reputation_cache,
                                    !.full = [a \in DOMAIN reputation_cache |->
                                                Strip(reputation_cache[a])]]
       ELSE /\ ref' = [ref EXCEPT !.wake_at = WakeAt(now), !.cycles = @ + 1]
            /\ UNCHANGED hist
  /\ UNCHANGED <<now, nonces, nonces_lock, reputation_cache,
                 reputation_cache_lock, env, g, jan, p>>

\* agent0_sdk.searchAgentsByReputation(...) raises, or returns a page and
\* a cursor (a plain list is a page without a cursor)
Refresh_Fetch(ok, agents, cursor) ==
  /\ ref.pc = "fetch"
  /\ cursor => ref.page < MaxPages
  /\ IF ~ok
       THEN /\ ref' = [ref EXCEPT !.pc = "failed"]
            /\ UNCHANGED hist
       ELSE LET all == ref.all_agents \o agents IN
            /\ ref' = [ref EXCEPT !.all_agents = all,
                                  !.page = IF cursor THEN @ + 1 ELSE @,
                                  !.pc = IF cursor THEN "fetch" ELSE "fetched"]
            /\ hist' = IF cursor THEN hist
                       ELSE [hist EXCEPT !.full = BuildStripped(all)]
  /\ UNCHANGED <<now, nonces, nonces_lock, reputation_cache,
                 reputation_cache_lock, env, g, jan, p>>

\* with reputation_cache_lock:
Refresh_Lock ==
  /\ ref.pc = "fetched"
  /\ LockFree(reputation_cache_lock)
  /\ reputation_cache_lock' = "ref"
  /\ ref' = [ref EXCEPT !.pc = "clear"]
  /\ UNCHANGED <<now, nonces, nonces_lock, reputation_cache,
                 env, g, jan, p, hist>>

Refresh_Clear_Keeps ==
  /\ ref.pc = "clear"
  /\ ref' = [ref EXCEPT !.pc = "build", !.idx = 1]
  /\ UNCHANGED <<now, nonces, nonces_lock, reputation_cache,
                 reputation_cache_lock, env, g, jan, p, hist>>

\* reputation_cache.clear()
Refresh_Clear ==
  /\ ref.pc = "clear"
  /\ reputation_cache' = EmptyCache
  /\ ref' = [ref EXCEPT !.pc = "build", !.idx = 1]
  /\ UNCHANGED <<now, nonces, nonces_lock, reputation_cache_lock,
                 env, g, jan, p, hist>>

\* one iteration of `for agent in all_agents:`; wallet_address.lower()
\* raises for a wallet address that is not a string, and the exception
\* leaves the with block
Refresh_Process ==
  /\ ref.pc = "build"
  /\ ref.idx <= Len(ref.all_agents)
  /\ LET agent == ref.all_agents[ref.idx] IN
     CASE agent.wallet = "none" ->
            /\ ref' = [ref EXCEPT !.idx = @ + 1]
            /\ UNCHANGED <<reputation_cache, reputation_cache_lock>>
       [] agent.wallet = "str" ->
            /\ reputation_cache' = CachePut(reputation_cache,
                                            Lower(agent.walletAddress),
                                            CacheRecord(agent, now))
            /\ ref' = [ref EXCEPT !.idx = @ + 1]
            /\ UNCHANGED reputation_cache_lock
       [] OTHER ->
            /\ reputation_cache_lock' = Released("ref")
            /\ ref' = [ref EXCEPT !.pc = "failed"]
            /\ UNCHANGED reputation_cache
  /\ UNCHANGED <<now, nonces, nonces_lock, env, g, jan, p, hist>>

\* the loop is over: the release, the print, time.sleep(60)
Refresh_Release ==
  /\ ref.pc = "build"
  /\ ref.idx > Len(ref.all_agents)
  /\ reputation_cache_lock' = Released("ref")
  /\ ref' = [ref EXCEPT !.pc = "sleep", !.wake_at = WakeAt(now),
                        !.all_agents = <<>>, !.idx = 0, !.page = 0]
  /\ UNCHANGED <<now, nonces, nonces_lock, reputation_cache,
                 env, g, jan, p, hist>>

\* except Exception as e: print(...); time.sleep(60)
Refresh_Failed ==
  /\ ref.pc = "failed"
  /\ ref' = [ref EXCEPT !.pc = "sleep", !.wake_at = WakeAt(now),
                        !.all_agents = <<>>, !.idx = 0, !.page = 0]
  /\ UNCHANGED <<now, nonces, nonces_lock, reputation_cache,
                 reputation_cache_lock, env, g, jan, p, hist>>

\* ------------------------------------------------------ configuration ----
DOMAIN_NAME == "example.com"

Env(domain, min_score, sdk, test_mode) ==
  [expected_domain |-> domain, min_score |-> min_score, sdk |-> sdk,
   test_mode |-> test_mode]

NormalEnv == Env(DOMAIN_NAME, 50, TRUE, FALSE)

RefresherStarted_Always(e) == TRUE

\* start_background_jobs: `if agent0_sdk:` the refresher thread is started
RefresherStarted(e) == e.sdk

\* the state after import and start_background_jobs, with `fill` tokens
\* issued at time 0 and not presented yet
InitWith(envs, fills) ==
  /\ now = 0
  /\ \E fill \in fills :
       /\ nonces = [i \in 1..fill |-> Entry(i, 0)]
       /\ hist = [generated |-> fill, calls |-> 0, returned |-> 1..fill,
                  matched |-> {}, twice |-> {}, late |-> {},
                  evicted |-> {},
                  pre |-> EmptyCache, full |-> EmptyCache]
  /\ nonces_lock = "free"
  /\ reputation_cache = EmptyCache
  /\ reputation_cache_lock = "free"
  /\ env \in envs
  /\ g = [i \in Issuers |-> [pc |-> "idle", nonce |-> NoToken,
                              current_time |-> 0]]
  /\ jan = [pc |-> "sleep", current_time |-> 0, expired |-> 0,
            wake_at |-> SLEEP, errors |-> 0]
  /\ p = [t \in Posters |-> IdlePoster]
  /\ ref = [pc |-> IF RefresherStarted(env) THEN "sleep" ELSE "off",
            all_agents |-> <<>>, page |-> 0, idx |-> 0, wake_at |-> 0,
            cycles |-> 0]

\* ------------------------------------------------------------ inputs ----
Req(n, domain, signature, address) ==
  [method |-> "POST", data |-> "ok", message |-> "ok",
   signature |-> signature, nonce |-> n, domain |-> domain,
   chain_id |-> EXPECTED_CHAIN_ID, statement |-> EXPECTED_STATEMENT,
   uri |-> ExpectedUri(DOMAIN_NAME), address |-> address]

ALICE == <<"A", "b">>

\* the tokens a client presents: the oldest one, the first one issued
\* after a pre-filled start, and one that was never issued
NonceTokens == {1, InitFill + 1, BogusToken}
\* one client sends any of: a request that is right, one with a foreign
\* domain, one with a bad signature
NonceReqs ==
  {Req(n, d, "valid", ALICE) : n \in NonceTokens,
                               d \in {DOMAIN_NAME, "evil.com"}}
    \cup {Req(n, DOMAIN_NAME, "invalid", ALICE) : n \in NonceTokens}
\* a second client presents the same tokens in requests that are right
ReplayReqs == {Req(n, DOMAIN_NAME, "valid", ALICE) : n \in NonceTokens}

\* -------------------------------------------------- the nonce store ----
InitNonce == InitWith({NormalEnv}, {0, InitFill})

JanitorStep == Janitor_Wake \/ Janitor_Lock \/ Janitor_Sweep

GetNonceStep ==
  \E i \in Issuers :
    \/ GetNonce_Start(i)
    \/ GetNonce_Lock(i)
    \/ GetNonce_MakeRoom(i)
    \/ GetNonce_Insert(i)
    \/ GetNonce_Sweep(i)

PostStep(t) ==
  \/ Post_Lock(t)
  \/ Post_Nonce(t)
  \/ Post_Verify(t)
  \/ Post_RepLock(t)
  \/ Post_RepRead(t)
  \/ Post_Return(t)

NextNonce ==
  \/ Tick
  \/ JanitorStep
  \/ GetNonceStep
  \/ \E r \in NonceReqs : Post_Start("p1", r)
  \/ \E r \in ReplayReqs : Post_Start("p2", r)
  \/ \E t \in Posters : PostStep(t)

SpecNonce == InitNonce /\ [][NextNonce]_vars

\* ------------------------------------------------ the whole request ----
BOB == <<"c", "d">>

\* the configurations: the usual one, the bypass sentinel with and without
\* the SDK, no SDK with and without TEST_MODE, no EXPECTED_DOMAIN
GoldEnvs ==
  {NormalEnv,
   Env(DOMAIN_NAME, BYPASS + 1, TRUE, FALSE),
   Env(DOMAIN_NAME, BYPASS + 1, FALSE, FALSE),
   Env(DOMAIN_NAME, 50, FALSE, FALSE),
   Env(DOMAIN_NAME, 50, FALSE, TRUE),
   Env(Unset, 50, TRUE, FALSE)}

Agent(wallet, walletAddress, agentId, name, extras_is_dict, averageScore) ==
  [wallet |-> wallet, walletAddress |-> walletAddress, agentId |-> agentId,
   name |-> name, extras_is_dict |-> extras_is_dict,
   averageScore |-> averageScore]

AliceAgent == Agent("str", ALICE, 1, "alice", TRUE, 80)
AliceAgain == Agent("str", <<"a", "B">>, 2, "alice2", TRUE, 60)
BobAgent == Agent("str", BOB, 3, "bob", FALSE, 70)
NoWalletAgent == Agent("none", NoAddress, 4, "nobody", TRUE, 90)
\* an agent whose walletAddress is not a string
BadAgent == Agent("other", NoAddress, 5, "broken", TRUE, 90)

\* every well-formed POST, and one request for each early rejection
GoldReqs ==
  {[Req(n, d, sg, a) EXCEPT !.chain_id = c, !.statement = st, !.uri = u] :
     n \in {1, BogusToken}, d \in {DOMAIN_NAME, "evil.com"},
     sg \in {"valid", "invalid"}, a \in {ALICE, BOB},
     c \in {EXPECTED_CHAIN_ID, 1},
     st \in {EXPECTED_STATEMENT, "Give me the gold"},
     u \in {ExpectedUri(DOMAIN_NAME), ExpectedUri("evil.com")}}
  \cup {[Req(1, DOMAIN_NAME, "valid", ALICE) EXCEPT !.method = "GET"],
        [Req(1, DOMAIN_NAME, "valid", ALICE) EXCEPT !.data = "none"],
        [Req(1, DOMAIN_NAME, "valid", ALICE) EXCEPT !.data = "raises"],
        [Req(1, DOMAIN_NAME, "valid", ALICE) EXCEPT !.message = "missing"],
        [Req(1, DOMAIN_NAME, "missing", ALICE) EXCEPT !.message = "ok"],
        [Req(1, DOMAIN_NAME, "valid", ALICE) EXCEPT !.message = "malformed"]}

GoldPages == {<<AliceAgent>>}

InitGold == InitWith(GoldEnvs, {0, InitFill})

RefreshStep(pages) ==
  \/ Refresh_Begin
  \/ \E ok \in BOOLEAN, agents \in pages, cursor \in BOOLEAN :
       Refresh_Fetch(ok, agents, cursor)
  \/ Refresh_Lock
  \/ Refresh_Clear
  \/ Refresh_Process
  \/ Refresh_Release
  \/ Refresh_Failed

NextGold ==
  \/ GetNonceStep
  \/ RefreshStep(GoldPages)
  \/ \E r \in GoldReqs : Post_Start("p1", r)
  \/ PostStep("p1")

SpecGold == InitGold /\ [][NextGold]_vars

\* ---------------------------------------------- the reputation cache ----
RepTokens == {1}
RepReqs == {Req(n, DOMAIN_NAME, "valid", a) : n \in RepTokens,
                                               a \in {ALICE, BOB}}
RepPages == {<<AliceAgent, BobAgent>>, <<BadAgent, AliceAgent>>,
             <<BobAgent, BadAgent>>, <<NoWalletAgent, AliceAgain>>}

InitRep == InitWith({NormalEnv}, {InitFill})

NextRep ==
  \/ Tick
  \/ RefreshStep(RepPages)
  \/ \E r \in RepReqs : Post_Start("p1", r)
  \/ PostStep("p1")

SpecRep == InitRep /\ [][NextRep]_vars

\* ------------------------------------------ every thread, with fairness ----
\* The janitor with its failures, the refresher with a source that fails,
\* returns a record it cannot process, or returns nothing to cache, one
\* client that presents the oldest token, and the clock. The handlers of
\* get_nonce are part of SpecNonce and SpecGold.
LiveReqs == {Req(1, DOMAIN_NAME, "valid", ALICE)}
LivePages == {<<NoWalletAgent>>, <<BadAgent>>}

InitLive == InitWith({NormalEnv}, {InitFill})

NextLive ==
  \/ Tick
  \/ Tick_Beyond
  \/ JanitorStep
  \/ Janitor_Raise
  \/ Refresh_Begin
  \/ \E ok \in BOOLEAN, agents \in LivePages :
       Refresh_Fetch(ok, agents, FALSE)
  \/ Refresh_Lock
  \/ Refresh_Clear
  \/ Refresh_Process
  \/ Refresh_Release
  \/ Refresh_Failed
  \/ \E r \in LiveReqs : Post_Start("p1", r)
  \/ PostStep("p1")

\* Time passes. A thread that is not waiting for a lock and not asleep runs
\* on (weak fairness); a thread that waits for a lock gets it when the lock
\* is free again and again (strong fairness). Requests arrive or do not:
\* Post_Start is not fair. The janitor raises at most MaxErrors times.
FairLive ==
  /\ WF_vars(Tick)
  /\ WF_vars(Tick_Beyond)
  /\ WF_vars(Janitor_Wake)
  /\ SF_vars(Janitor_Lock)
  /\ WF_vars(Janitor_Sweep)
  /\ SF_vars(Post_Lock("p1") \/ Post_RepLock("p1"))
  /\ WF_vars(Post_Nonce("p1") \/ Post_Verify("p1") \/ Post_RepRead("p1")
               \/ Post_Return("p1"))
  /\ SF_vars(Refresh_Lock)
  /\ WF_vars(Refresh_Begin \/ Refresh_Clear \/ Refresh_Process \/ Refresh_Release
               \/ Refresh_Failed)
  /\ WF_vars(\E ok \in BOOLEAN, agents \in LivePages :
               Refresh_Fetch(ok, agents, FALSE))

SpecLive == InitLive /\ [][NextLive]_vars /\ FairLive

\* ------------------------------------------- two concurrent lookups ----
\* two clients whose addresses differ in letter case only, a third address,
\* and a source that knows the first address
LookupReqs1 == {Req(1, DOMAIN_NAME, "valid", a) : a \in {ALICE, BOB}}
LookupReqs2 == {Req(2, DOMAIN_NAME, "valid", AliceAgain.walletAddress)}
LookupPages == {<<AliceAgent>>}

InitLookup == InitWith({NormalEnv}, {InitFill})

NextLookup ==
  \/ Tick
  \/ RefreshStep(LookupPages)
  \/ \E r \in LookupReqs1 : Post_Start("p1", r)
  \/ \E r \in LookupReqs2 : Post_Start("p2", r)
  \/ \E t \in Posters : PostStep(t)

SpecLookup == InitLookup /\ [][NextLookup]_vars

\* ------------------------------------------------------------ claims ----
\* C1: replay prevention. No token is matched by two requests, in any
\* interleaving of requests, issuances and sweeps; a request that presents
\* a token at the nonce step after the token was matched once is rejected
\* with 'Invalid or expired nonce' (401), whatever its signature.
C1_ReplayPrevention ==
  /\ hist.twice = {}
  /\ \A t \in Posters :
       p[t].replay => /\ ~p[t].matched
                      /\ p[t].pc = "done"
                      /\ p[t].resp.status = 401
                      /\ p[t].resp.error = "Invalid or expired nonce"

\* two requests with the same issued token, both with a valid signature:
\* one was matched and is still being handled, the other was rejected
C1_Witness ==
  /\ p["p1"].matched /\ p["p1"].pc = "verify"
  /\ p["p2"].replay /\ p["p2"].pc = "done"
  /\ p["p2"].req.nonce = p["p1"].req.nonce
  /\ p["p2"].req.signature = "valid"
  /\ p["p2"].req.nonce \in hist.returned

\* C2: a nonce is burned by its first presentation. Once a request passed
\* the nonce step its token is absent from the nonce store from then on,
\* also when the request fails at a later step.
C2_Burned ==
  /\ \A n \in hist.matched : ~InStore(nonces, n)
  /\ \A t \in Posters : p[t].matched => ~InStore(nonces, p[t].req.nonce)

\* a request passed the nonce step and was then rejected for its domain,
\* another one for its reputation
C2_Witness ==
  /\ p["p1"].matched /\ p["p1"].pc = "done"
  /\ p["p1"].resp.error = "Domain mismatch"
  /\ p["p2"].matched /\ p["p2"].pc = "done"
  /\ p["p2"].resp.status = 403
  /\ ~InStore(nonces, p["p1"].req.nonce)

\* C4: the nonce check precedes the field checks. A request that reaches
\* the nonce step and fails it reports 'Invalid or expired nonce', never a
\* field, signature or reputation error, also when its domain is wrong.
C4_NonceFirst ==
  \A t \in Posters :
    (/\ p[t].pc = "done"
     /\ EarlyResponse(env, p[t].req) = None
     /\ ~p[t].matched)
      => p[t].resp = NonceError

\* a request with a token that is not in the store and a foreign domain
\* got the nonce error
C4_Witness ==
  \E t \in Posters :
    /\ p[t].pc = "done" /\ ~p[t].matched
    /\ p[t].req.domain # env.expected_domain
    /\ p[t].req.message = "ok"
    /\ p[t].resp = NonceError

\* C5: an expired nonce is rejected. No request passes the nonce step with
\* a token that was issued more than TTL seconds before.
C5_ExpiredRejected == hist.late = {}

\* C6: bounded storage without rejection. The nonce store never holds more
\* than MAX_NONCES entries, get_nonce always finds room for the new token,
\* and the token is in the store when get_nonce goes on to return it.
C6_Bounded ==
  /\ Len(nonces) <= MAX_NONCES
  /\ \A i \in Issuers :
       /\ g[i].pc = "insert" => Len(nonces) < MAX_NONCES
       /\ g[i].pc = "sweep" => InStore(nonces, g[i].nonce)

\* get_nonce was called with a full store in which nothing had expired:
\* the oldest token made room, the store is full again
C6_Witness ==
  /\ now = 0
  /\ Len(nonces) = MAX_NONCES
  /\ hist.matched = {}
  /\ ~InStore(nonces, 1)
  /\ \E i \in Issuers : g[i].pc = "sweep"

\* what a sweep at time ct leaves of the store
SweepPost(before, after, ct) ==
  /\ \A i \in DOMAIN after : ~(ct - after[i].t > TTL)
  /\ \A i \in DOMAIN before :
       ct - before[i].t <= TTL => \E j \in DOMAIN after : after[j] = before[i]

\* C7: sweep postcondition. Right after a sweep at time current_time (a
\* janitor cycle, or the sweep that ends get_nonce) the store holds no
\* entry older than TTL, and every entry that was in the store before the
\* sweep and is not older than TTL is still there.
C7_SweepPost ==
  [][/\ (jan.pc = "locked" /\ jan'.pc = "sleep")
          => SweepPost(nonces, nonces', jan.current_time)
     /\ \A i \in Issuers :
          (g[i].pc = "sweep" /\ g'[i].pc = "idle")
            => SweepPost(nonces, nonces', g[i].current_time)]_vars

\* a janitor sweep removed entries and kept others
C7_Witness ==
  /\ jan.pc = "sleep" /\ jan.expired > 0
  /\ nonces_lock = "free"
  /\ Len(nonces) > 0
  /\ hist.matched = {}

\* C3: access is granted only after every check. A POST answered with 200
\* had its token in the nonce store and removed it, carried the expected
\* domain, chain id, statement and uri and a signature that verified, and
\* check_reputation returned a record for its address; the response
\* carries that address and that record.
C3_GrantedAfterEveryCheck ==
  \A t \in Posters :
    (/\ p[t].pc = "done"
     /\ p[t].req.method = "POST"
     /\ p[t].resp.status = 200)
      => /\ p[t].req.data = "ok" /\ p[t].req.message = "ok"
         /\ p[t].matched
         /\ p[t].req.nonce \in hist.matched
         /\ ~InStore(nonces, p[t].req.nonce)
         /\ p[t].req.domain = env.expected_domain
         /\ p[t].req.chain_id = EXPECTED_CHAIN_ID
         /\ p[t].req.statement = EXPECTED_STATEMENT
         /\ p[t].req.uri = ExpectedUri(env.expected_domain)
         /\ p[t].req.signature = "valid"
         /\ p[t].agent_info # None
         /\ p[t].resp.address = p[t].req.address
         /\ p[t].resp.agent = p[t].agent_info

\* the scenario of the specification: the address has a cached score of
\* 80, the threshold is 50, the response carries the record
C3_Witness ==
  \E t \in Posters :
    /\ p[t].pc = "done" /\ p[t].req.method = "POST"
    /\ p[t].resp.status = 200
    /\ env.min_score = 50
    /\ p[t].looked
    /\ p[t].resp.address = ALICE
    /\ p[t].resp.agent.score = 80

\* C8: snapshot atomicity of the reputation cache. What a lookup reads for
\* an address is what the cache held for it before the refresh cycle the
\* lookup runs into, or what the complete mapping of that cycle holds for
\* it; never the result of an emptied or partly filled cache.
C8_SnapshotReads ==
  \A t \in Posters :
    p[t].looked =>
      \/ Strip(p[t].agent_info) = p[t].before
      \/ Strip(p[t].agent_info) = p[t].after

\* C9: a failed refresh keeps the stale snapshot. When a refresh cycle has
\* raised, in the query or while a record was processed, the cache is the
\* cache the cycle started with.
C9_FailedKeepsStale ==
  ref.pc = "failed" => reputation_cache = hist.pre

\* C10: the bypass sentinel. With MIN_REPUTATION_SCORE above 999998 every
\* POST that passed the nonce step, the field checks and the signature
\* verification is answered with 200 and the bypass record, whatever the
\* cache holds and with or without the SDK; the cache is not consulted.
C10_Bypass ==
  env.min_score > BYPASS =>
    \A t \in Posters :
      /\ p[t].pc \notin {"lookup", "replocked"}
      /\ (/\ p[t].pc = "done"
          /\ p[t].matched
          /\ FieldResponse(env, p[t].req) = None
          /\ p[t].req.signature = "valid")
           => /\ p[t].resp.status = 200
              /\ p[t].resp.address = p[t].req.address
              /\ p[t].resp.agent = BypassRecord

\* a request succeeded with the bypass record although the SDK was never
\* initialised
C10_Witness ==
  \E t \in Posters :
    /\ env.min_score > BYPASS /\ ~env.sdk
    /\ p[t].pc = "done" /\ p[t].matched
    /\ p[t].resp.status = 200
    /\ p[t].resp.agent = BypassRecord

\* C11: reputation source unavailable at startup. When the SDK failed to
\* initialise, the refresher is never started and the reputation cache is
\* never modified (it stays empty and no handler reads it); with a threshold
\* below the bypass sentinel, a request that passed every earlier step is
\* denied (403, no record) when TEST_MODE is not set, and is granted with
\* the placeholder record, whatever its address, when TEST_MODE is set.
C11_NoSdk ==
  ~env.sdk =>
    /\ ref.pc = "off"
    /\ reputation_cache = EmptyCache
    /\ reputation_cache_lock = "free"
    /\ \A t \in Posters :
         /\ p[t].pc \notin {"lookup", "replocked"}
         /\ ~p[t].looked
         /\ (/\ p[t].pc = "done"
             /\ p[t].matched
             /\ p[t].resp.error \notin {"Domain mismatch", "Chain ID mismatch",
                                        "Statement mismatch", "URI mismatch",
                                        "Verification failed"}
             /\ env.min_score <= BYPASS)
            => IF env.test_mode
                 THEN p[t].resp = Response(200, "", p[t].req.address,
                                           TestModeRecord)
                 ELSE p[t].resp = Response(403, "Access denied",
                                           p[t].req.address, None)

\* without the SDK and with TEST_MODE, below the sentinel: BOB, whom no
\* source ever reported, is granted with the placeholder record
C11_Witness ==
  /\ ~env.sdk /\ env.test_mode /\ env.min_score <= BYPASS
  /\ p["p1"].pc = "done"
  /\ p["p1"].matched
  /\ p["p1"].req.address = BOB
  /\ p["p1"].resp.status = 200
  /\ p["p1"].resp.agent = TestModeRecord

\* C12: failure classes map to fixed outcomes. For every answered POST: 500
\* exactly when EXPECTED_DOMAIN is not set; otherwise 400 when the JSON body
\* is missing or empty (get_json raises or returns a falsy value) or the
\* message or the signature is missing; 'Verification failed' for a message
\* that does not parse; 401 for a failed nonce step, a mismatched field or
\* a bad signature; 403 carrying the address when there is no reputation
\* record; and the handler is ready for the next request.
C12_FailureOutcomes ==
  \A t \in Posters :
    (p[t].pc = "done" /\ p[t].req.method = "POST") =>
      LET r   == p[t].req
          out == p[t].resp
          wellFormed == r.data = "ok" /\ r.message = "ok"
                          /\ r.signature # "missing"
      IN
      /\ (out.status = 500) <=> (env.expected_domain = Unset)
      /\ ENABLED Post_Return(t)
      /\ env.expected_domain # Unset =>
           /\ out.status \in {200, 400, 401, 403}
           /\ (r.data # "ok" \/ r.message = "missing"
                 \/ r.signature = "missing") => out.status = 400
           /\ (r.data = "ok" /\ r.message = "malformed"
                 /\ r.signature # "missing")
                => out.error = "Verification failed"
           /\ (wellFormed /\ ~p[t].matched) => out.status = 401
           /\ (wellFormed /\ FieldResponse(env, r) # None)
                => out.status = 401
           /\ (wellFormed /\ r.signature # "valid") => out.status = 401
           /\ (wellFormed /\ p[t].matched /\ FieldResponse(env, r) = None
                 /\ r.signature = "valid")
                => \/ out.status = 200
                   \/ /\ out.status = 403
                      /\ out.address = r.address
                      /\ p[t].agent_info = None

\* the tokens a step removes from the store while they are within the TTL
\* of their issuance
RemovedFresh ==
  {n \in Tokens(nonces) \ Tokens(nonces') :
     now - IssueTime(nonces, n) <= TTL}

\* C13 as stated: a token is in the store when get_nonce returns it, and a
\* returned token that is within the TTL of its issuance leaves the store
\* only when a request presents it; so the first request that presents it
\* within the TTL passes the nonce step.
C13_FreshHonoured ==
  [][/\ \A i \in Issuers :
          (g[i].pc = "sweep" /\ g'[i].pc = "idle")
            => InStore(nonces', g[i].nonce)
     /\ \A n \in RemovedFresh \cap hist.returned :
          n \in hist'.matched \ hist.matched
    ]_vars

\* C13, amended: a token is in the store when get_nonce returns it, and a
\* returned token that is within the TTL of its issuance leaves the store
\* only when a request presents it or when a capacity eviction of
\* get_nonce removes it, in any interleaving of issuances, consumptions
\* and sweeps.
C13_FreshUnlessEvicted ==
  [][/\ \A i \in Issuers :
          (g[i].pc = "sweep" /\ g'[i].pc = "idle")
            => InStore(nonces', g[i].nonce)
     /\ \A n \in RemovedFresh \cap hist.returned :
          \/ n \in hist'.matched \ hist.matched
          \/ n \in hist'.evicted \ hist.evicted
    ]_vars

\* an issuance at capacity evicted a token, and the token issued just
\* before it is honoured within its TTL
C13_Witness ==
  /\ hist.evicted # {}
  /\ \E t \in Posters :
       /\ p[t].pc = "verify"
       /\ p[t].matched
       /\ p[t].req.nonce = InitFill + 1
       /\ InitFill + 1 \notin hist.late

\* the checks of steps 3 to 5 a request fails, in the order of the claim:
\* 1 domain, 2 chain id, 3 statement, 4 uri, 5 signature, 6 reputation
FailedChecks(r, has_record) ==
  (IF r.domain # env.expected_domain THEN {1} ELSE {})
    \cup (IF r.chain_id # EXPECTED_CHAIN_ID THEN {2} ELSE {})
    \cup (IF r.statement # EXPECTED_STATEMENT THEN {3} ELSE {})
    \cup (IF r.uri # ExpectedUri(env.expected_domain) THEN {4} ELSE {})
    \cup (IF r.signature # "valid" THEN {5} ELSE {})
    \cup (IF ~has_record THEN {6} ELSE {})

FirstOf(S) == CHOOSE i \in S : \A j \in S : i <= j

StepStatus == <<401, 401, 401, 401, 401, 403>>
StepError == <<"Domain mismatch", "Chain ID mismatch", "Statement mismatch",
               "URI mismatch", "Verification failed", "Access denied">>

\* C14: steps 3 to 5 short-circuit in a fixed order. A request that passed
\* the nonce step and is answered reports the first failing check in the
\* order domain, chain id, statement, uri, signature, reputation; a request
\* with a mismatched field never reaches signature verification; a request
\* with an invalid signature never reaches the reputation lookup and is
\* answered 401, never 403.
C14_FirstFailure ==
  \A t \in Posters :
    LET r == p[t].req IN
    /\ p[t].pc = "verify" => FailedChecks(r, TRUE) \cap {1, 2, 3, 4} = {}
    /\ p[t].pc \in {"lookup", "replocked"} => FailedChecks(r, TRUE) = {}
    /\ p[t].looked => FailedChecks(r, TRUE) = {}
    /\ (p[t].pc = "done" /\ p[t].matched) =>
         LET failed == FailedChecks(r, p[t].agent_info # None) IN
         /\ failed \cap {1, 2, 3, 4, 5} # {} =>
              /\ p[t].resp.status = StepStatus[FirstOf(failed)]
              /\ p[t].resp.error = StepError[FirstOf(failed)]
         /\ 5 \in failed => p[t].resp.status # 403
         /\ p[t].resp.status = 403 => failed = {6}
         /\ p[t].resp.status = 200 => failed = {}

\* domain and chain id are both wrong and the signature is bad: the answer
\* names the domain
C14_Witness ==
  /\ p["p1"].pc = "done"
  /\ p["p1"].matched
  /\ {1, 2, 5} \subseteq FailedChecks(p["p1"].req, TRUE)
  /\ p["p1"].resp.error = "Domain mismatch"

\* nonces.items()
Items(s) == {s[i] : i \in DOMAIN s}

\* C15: capacity eviction policy. The capacity block of get_nonce leaves a
\* store below capacity alone; at capacity it removes every entry older
\* than the TTL, and only when the entries within the TTL still fill the
\* store does it remove entries that are not expired: exactly 10% of the
\* capacity, none of them newer than an entry it keeps. The new token is
\* inserted after that, and is in the store when get_nonce returns.
C15_EvictionPolicy ==
  [][\A i \in Issuers :
       /\ (g[i].pc = "room" /\ g'[i].pc = "insert") =>
            LET ct      == g[i].current_time
                old     == {e \in Items(nonces) : ct - e.t > TTL}
                young   == Items(nonces) \ old
                kept    == Items(nonces')
                removed == Items(nonces) \ kept
            IN  /\ kept \subseteq Items(nonces)
                /\ ~InStore(nonces', g[i].nonce)
                /\ Len(nonces) < MAX_NONCES => nonces' = nonces
                /\ Len(nonces) >= MAX_NONCES =>
                     /\ old \subseteq removed
                     /\ IF Cardinality(young) < MAX_NONCES
                          THEN removed = old
                          ELSE /\ Cardinality(removed \cap young)
                                    = MAX_NONCES \div 10
                               /\ \A r \in removed \cap young, k \in kept :
                                    r.t <= k.t
       /\ (g[i].pc = "insert" /\ g'[i].pc = "sweep") =>
            /\ Items(nonces') = Items(nonces)
                                  \cup {Entry(g[i].nonce, g[i].current_time)}
            /\ Len(nonces') <= MAX_NONCES
       /\ (g[i].pc = "sweep" /\ g'[i].pc = "idle") =>
            /\ InStore(nonces', g[i].nonce)
            /\ g[i].nonce \in hist'.returned
    ]_vars

\* a full store of unexpired tokens of two ages: the issuance evicted
\* token 1, issued at time 0, and kept a newer one
C15_Witness ==
  /\ g["g1"].pc = "insert"
  /\ hist.evicted = {1}
  /\ Len(nonces) = MAX_NONCES - MAX_NONCES \div 10
  /\ \E i \in DOMAIN nonces : nonces[i].t > 0

Threads == Posters \cup Issuers \cup {"jan", "ref"}

\* no thread holds both locks; a lock is held only inside its with block;
\* no lock is held inside siwe_message.verify or inside the query of the
\* reputation source
LockDiscipline ==
  /\ \A th \in Threads : ~(nonces_lock = th /\ reputation_cache_lock = th)
  /\ nonces_lock \in {"free", "jan"} \cup Issuers \cup Posters
  /\ reputation_cache_lock \in {"free", "ref"} \cup Posters
  /\ nonces_lock = "jan" => jan.pc = "locked"
  /\ reputation_cache_lock = "ref" => ref.pc \in {"clear", "build"}
  /\ ref.pc = "fetch" => reputation_cache_lock # "ref"
  /\ \A t \in Posters :
       /\ nonces_lock = t => p[t].pc = "locked"
       /\ reputation_cache_lock = t => p[t].pc = "replocked"
       /\ p[t].pc = "verify" =>
            (nonces_lock # t /\ reputation_cache_lock # t)

\* C16: lock discipline. In every reachable state no thread holds
\* nonces_lock and reputation_cache_lock together and no thread holds a
\* lock while it is inside the query of the reputation source or inside
\* signature verification; and a thread that waits for a lock gets it.
C16_LockDiscipline ==
  /\ []LockDiscipline
  /\ \A t \in Posters : (p[t].pc = "parsed") ~> (p[t].pc = "locked")
  /\ \A t \in Posters : (p[t].pc = "lookup") ~> (p[t].pc = "replocked")
  /\ (jan.pc = "woke") ~> (jan.pc # "woke")
  /\ (ref.pc = "fetched") ~> (ref.pc = "clear")

\* the handler waits for the cache lock, which the refresher holds, while
\* the janitor holds the nonce lock
C16_Witness ==
  /\ p["p1"].pc = "lookup"
  /\ reputation_cache_lock = "ref"
  /\ nonces_lock = "jan"

\* C17: background loops survive failures and expired nonces are removed
\* in the end. After an iteration of the janitor raised, the janitor wakes
\* up again; after an iteration of the refresher failed, the refresher
\* sleeps and, while it has iterations left, queries the source again; and
\* from some time on every token whose expiry the clock reaches is absent
\* from the store, presented or not.
C17_LoopsSurvive ==
  /\ (jan.errors > 0 /\ jan.pc = "sleep") ~> (jan.pc = "woke")
  /\ (ref.pc = "failed") ~> (ref.pc = "sleep")
  /\ (ref.pc = "failed" /\ ref.cycles < MaxCycles) ~> (ref.pc = "fetch")
  /\ <>[](\A n \in 1..InitFill :
            InStore(nonces, n) => IssueTime(nonces, n) + TTL >= LastTick)

\* an iteration of the janitor raised, a later one swept token 2, which
\* nobody presented
C17_Witness ==
  /\ jan.errors > 0
  /\ jan.pc = "sleep"
  /\ jan.expired > 0
  /\ 2 \notin hist.matched
  /\ ~InStore(nonces, 2)

\* the records of a query that carry a wallet address
WithWallet(agents) ==
  {agents[i] : i \in {j \in DOMAIN agents : agents[j].wallet = "str"}}

\* C18: wholesale replacement on refresh. When a refresh cycle completes
\* (the loop over the records ended and the lock is released), the keys of
\* the cache are exactly the lowercased wallet addresses of the records
\* the query returned over all its pages, every entry holds the data of a
\* returned record with that address, and an address cached before the
\* cycle that no returned record carries is not found.
C18_Wholesale ==
  [][(ref.pc = "build" /\ ref'.pc = "sleep") =>
       LET recs == WithWallet(ref.all_agents) IN
       /\ DOMAIN reputation_cache' =
            {Lower(a.walletAddress) : a \in recs}
       /\ \A k \in DOMAIN reputation_cache' :
            \E a \in recs :
              /\ Lower(a.walletAddress) = k
              /\ reputation_cache'[k].agentId = a.agentId
              /\ reputation_cache'[k].name = a.name
              /\ reputation_cache'[k].score = Score(a)
       /\ \A k \in DOMAIN hist.pre :
            (\A a \in recs : Lower(a.walletAddress) # k)
              => CacheGet(reputation_cache', k) = None
    ]_vars

\* the second cycle ends: it returned a record for ALICE under another
\* spelling and none for BOB, who was cached before
C18_Witness ==
  /\ ref.pc = "build"
  /\ ref.idx > Len(ref.all_agents)
  /\ Lower(BOB) \in DOMAIN hist.pre
  /\ DOMAIN reputation_cache = {Lower(ALICE)}
  /\ reputation_cache[Lower(ALICE)].agentId = AliceAgain.agentId

\* a request the handler rejects before the nonce step, or a GET
RejectedEarly(r) ==
  \/ env.expected_domain = Unset
  \/ r.method = "GET"
  \/ r.data # "ok"
  \/ r.message \in {"missing", "malformed"}
  \/ r.signature = "missing"

\* C19: early rejections leave the nonce store unchanged. Every step of a
\* handler on a GET, or on a POST that is rejected before the nonce step
\* (EXPECTED_DOMAIN not set, JSON body missing or empty, message or
\* signature missing, message that does not parse), answers at once and
\* leaves the nonce store and the record of matched tokens as they were.
C19_EarlyKeepsStore ==
  [][\A t \in Posters :
       (p'[t] # p[t] /\ p'[t].pc # "idle" /\ RejectedEarly(p'[t].req)) =>
         /\ p'[t].pc = "done"
         /\ ~p'[t].matched
         /\ nonces' = nonces
         /\ hist' = hist
    ]_vars

\* a well-formed message that carries token 1 came without a signature:
\* the answer is 400 and token 1 is still in the store
C19_Witness ==
  /\ p["p1"].pc = "done"
  /\ p["p1"].req.message = "ok"
  /\ p["p1"].req.signature = "missing"
  /\ p["p1"].req.nonce = 1
  /\ p["p1"].resp.status = 400
  /\ 1 \notin hist.matched
  /\ InStore(nonces, 1)

\* two addresses that differ in letter case at most
SameButCase(a, b) ==
  /\ Len(a) = Len(b)
  /\ \A i \in DOMAIN a :
       \/ a[i] = b[i]
       \/ {a[i], b[i]} \in {{"a", "A"}, {"b", "B"}, {"c", "C"}}

\* C20: the reputation lookup is read-only and case-insensitive. The steps
\* of a lookup leave the reputation cache and the nonce store unchanged,
\* and two lookups that read the same cache contents for addresses that
\* differ in letter case only return the same result: the same record, or
\* no record for both.
C20_LookupReadOnly ==
  /\ [][\A t \in Posters :
          (p[t].pc \in {"lookup", "replocked"} /\ p'[t] # p[t]) =>
            /\ reputation_cache' = reputation_cache
            /\ nonces' = nonces
       ]_vars
  /\ [](\A t, u \in Posters :
          (/\ p[t].looked /\ p[u].looked
           /\ p[t].seen = p[u].seen
           /\ SameButCase(p[t].req.address, p[u].req.address))
          => /\ p[t].agent_info = p[u].agent_info
             /\ p[t].resp.status = p[u].resp.status
             /\ p[t].resp.agent = p[u].resp.agent)

\* both clients looked up their spelling of the same address in the same
\* cache contents, and both got the record
C20_Witness ==
  /\ p["p1"].looked /\ p["p2"].looked
  /\ p["p1"].seen = p["p2"].seen
  /\ p["p1"].req.address # p["p2"].req.address
  /\ p["p1"].agent_info # None
  /\ p["p1"].agent_info = p["p2"].agent_info

====
